---- MODULE Spec2Model ----
(***************************************************************************)
(* Model of job_alert.py: one run of the daily job-alert script.           *)
(*                                                                         *)
(* The run is a straight line: module import (configuration is read from   *)
(* the environment), main() checks the two secrets, is_target_time()       *)
(* compares the local hour with TARGET_HOUR, fetch_jobs() does one HTTP    *)
(* GET and filters the feed, send_email() builds the digest and talks to   *)
(* the SMTP relay.  An exception nobody catches ends the interpreter with  *)
(* exit status 1.                                                          *)
(*                                                                         *)
(* Python str values are TLA+ strings; a character is a string of length 1.*)
(***************************************************************************)
EXTENDS Integers, Sequences, FiniteSets, TLC

VARIABLES
    environ,          \* os.environ: name -> [set, val]
    host,             \* the host: is zoneinfo importable, its timezone database
    feed,             \* what the feed endpoint answers to the GET
    pc,               \* position of the run
    calls,            \* functions entered so far, in order
    exitStatus,       \* process exit status, NotExited while running
    raised,           \* the exception that ended the run, "none" otherwise
    ZoneInfo,         \* TRUE iff the name ZoneInfo is bound to the class (line 14), FALSE for None
    SENDER_EMAIL, SENDER_PASSWORD, RECEIVER_EMAIL, TIMEZONE, TARGET_HOUR, KEYWORDS,
    utcHour,          \* hour of the instant read by is_target_time, in UTC
    localHour,        \* now.hour in is_target_time, NoHour before
    jobs,             \* the list fetch_jobs returned
    fetchFailed,      \* "[ERROR] Fetch failed" was logged
    httpGets,         \* number of requests.get calls started
    smtpSessions,     \* number of smtplib.SMTP connections started
    body,             \* the digest body built by send_email
    rcptTo,           \* to_addrs handed to server.sendmail, None if never called
    sendOutcome       \* "none" before send_email, then the SMTP step that failed or "sent"

vars == <<environ, host, feed, pc, calls, exitStatus, raised, ZoneInfo,
          SENDER_EMAIL, SENDER_PASSWORD, RECEIVER_EMAIL, TIMEZONE, TARGET_HOUR, KEYWORDS,
          utcHour, localHour, jobs, fetchFailed, httpGets, smtpSessions,
          body, rcptTo, sendOutcome>>

inputVars  == <<environ, host, feed>>
configVars == <<ZoneInfo, SENDER_EMAIL, SENDER_PASSWORD, RECEIVER_EMAIL, TIMEZONE,
                TARGET_HOUR, KEYWORDS>>
gateVars   == <<utcHour, localHour>>
fetchVars  == <<jobs, fetchFailed, httpGets>>
sendVars   == <<smtpSessions, body, rcptTo, sendOutcome>>

(***************************************************************************)
(* Bounds and markers.                                                     *)
(***************************************************************************)
MaxFeedLen == 3

NotExited == 0 - 1
NoHour    == 0 - 1

(***************************************************************************)
(* Python values.                                                          *)
(***************************************************************************)
None   == [isNone |-> TRUE,  s |-> ""]
Str(x) == [isNone |-> FALSE, s |-> x]

\* truth value of an Optional[str]
Truthy(v) == ~v.isNone /\ v.s # ""

Unset    == [set |-> FALSE, val |-> ""]
SetTo(v) == [set |-> TRUE,  val |-> v]

\* os.environ.get(name) and os.environ.get(name, default)
EnvGet(name) == IF environ[name].set THEN Str(environ[name].val) ELSE None
EnvGetDefault(name, default) == IF environ[name].set THEN Str(environ[name].val) ELSE default

(***************************************************************************)
(* str methods.                                                            *)
(***************************************************************************)
CharAt(s, i) == SubSeq(s, i, i)

IsSpace(c) == c \in {" ", "\t", "\n", "\r"}

RECURSIVE LStrip(_)
LStrip(s) == IF s # "" /\ IsSpace(CharAt(s, 1)) THEN LStrip(SubSeq(s, 2, Len(s))) ELSE s

RECURSIVE RStrip(_)
RStrip(s) == IF s # "" /\ IsSpace(CharAt(s, Len(s))) THEN RStrip(SubSeq(s, 1, Len(s) - 1)) ELSE s

Strip(s) == RStrip(LStrip(s))

LowerChar(c) ==
    CASE c = "A" -> "a" [] c = "B" -> "b" [] c = "C" -> "c" [] c = "D" -> "d"
      [] c = "E" -> "e" [] c = "F" -> "f" [] c = "G" -> "g" [] c = "H" -> "h"
      [] c = "I" -> "i" [] c = "J" -> "j" [] c = "K" -> "k" [] c = "L" -> "l"
      [] c = "M" -> "m" [] c = "N" -> "n" [] c = "O" -> "o" [] c = "P" -> "p"
      [] c = "Q" -> "q" [] c = "R" -> "r" [] c = "S" -> "s" [] c = "T" -> "t"
      [] c = "U" -> "u" [] c = "V" -> "v" [] c = "W" -> "w" [] c = "X" -> "x"
      [] c = "Y" -> "y" [] c = "Z" -> "z" [] OTHER -> c

RECURSIVE Lower(_)
Lower(s) == IF s = "" THEN "" ELSE LowerChar(CharAt(s, 1)) \o Lower(SubSeq(s, 2, Len(s)))

\* sub in s
Contains(sub, s) ==
    \E i \in 0..(Len(s) - Len(sub)) : SubSeq(s, i + 1, i + Len(sub)) = sub

\* s.split(sep) for a one-character sep
RECURSIVE Split(_, _)
Split(s, sep) ==
    IF \E i \in 1..Len(s) : CharAt(s, i) = sep
    THEN LET i == CHOOSE k \in 1..Len(s) :
                      /\ CharAt(s, k) = sep
                      /\ \A m \in 1..(k - 1) : CharAt(s, m) # sep
         IN  <<SubSeq(s, 1, i - 1)>> \o Split(SubSeq(s, i + 1, Len(s)), sep)
    ELSE <<s>>

\* sep.join(parts)
RECURSIVE Join(_, _)
Join(sep, parts) ==
    IF parts = <<>> THEN ""
    ELSE IF Len(parts) = 1 THEN parts[1]
    ELSE parts[1] \o sep \o Join(sep, Tail(parts))

(***************************************************************************)
(* int(str): optional surrounding whitespace, optional sign, decimal       *)
(* digits with single underscores between them; anything else raises       *)
(* ValueError.                                                             *)
(***************************************************************************)
IsDigit(c) == c \in {"0", "1", "2", "3", "4", "5", "6", "7", "8", "9"}

DigitVal(c) ==
    CASE c = "0" -> 0 [] c = "1" -> 1 [] c = "2" -> 2 [] c = "3" -> 3 [] c = "4" -> 4
      [] c = "5" -> 5 [] c = "6" -> 6 [] c = "7" -> 7 [] c = "8" -> 8 [] c = "9" -> 9

RECURSIVE DigitsVal(_, _)
DigitsVal(s, acc) ==
    IF s = "" THEN acc
    ELSE IF CharAt(s, 1) = "_" THEN DigitsVal(SubSeq(s, 2, Len(s)), acc)
    ELSE DigitsVal(SubSeq(s, 2, Len(s)), 10 * acc + DigitVal(CharAt(s, 1)))

DigitsOk(d) ==
    /\ d # ""
    /\ \A i \in 1..Len(d) : IsDigit(CharAt(d, i)) \/ CharAt(d, i) = "_"
    /\ IsDigit(CharAt(d, 1))
    /\ IsDigit(CharAt(d, Len(d)))
    /\ \A i \in 1..(Len(d) - 1) : ~(CharAt(d, i) = "_" /\ CharAt(d, i + 1) = "_")

ParseInt(s) ==
    LET t    == Strip(s)
        sign == IF t # "" /\ CharAt(t, 1) \in {"+", "-"} THEN CharAt(t, 1) ELSE ""
        d    == IF sign = "" THEN t ELSE SubSeq(t, 2, Len(t))
    IN  IF DigitsOk(d)
        THEN [ok |-> TRUE, val |-> IF sign = "-" THEN 0 - DigitsVal(d, 0) ELSE DigitsVal(d, 0)]
        ELSE [ok |-> FALSE, val |-> 0]

(***************************************************************************)
(* Module-level configuration, lines 13-28.                                *)
(***************************************************************************)
DefaultTimezone   == "America/Chicago"
DefaultTargetHour == "12"
DefaultKeywords   ==
    "program analyst,software developer,data warehouse,data management,intern,entry level,junior,data engineer"

\* [k.strip().lower() for k in raw.split(",") if k.strip()]
KeywordsOf(raw) ==
    LET kept == SelectSeq(Split(raw, ","), LAMBDA k : Strip(k) # "")
    IN  [i \in 1..Len(kept) |-> Lower(Strip(kept[i]))]

\* the try/except around "from zoneinfo import ZoneInfo"
ZoneInfoImport == host.zoneinfoModule

(***************************************************************************)
(* local_now, lines 30-33.  ZoneInfo(TIMEZONE) raises                      *)
(* ZoneInfoNotFoundError when the host's database has no such zone; the    *)
(* naive utcnow() has the UTC hour.                                        *)
(***************************************************************************)
ZoneKnown(zone) == \E z \in host.tzdb : z[1] = zone

ZoneOffset(zone) == (CHOOSE z \in host.tzdb : z[1] = zone)[2]

local_now(utc) ==
    IF ZoneInfo
    THEN IF ZoneKnown(TIMEZONE.s)
         THEN [exc |-> "none", hour |-> (utc + ZoneOffset(TIMEZONE.s) + 24) % 24]
         ELSE [exc |-> "ZoneInfoNotFoundError", hour |-> NoHour]
    ELSE [exc |-> "none", hour |-> utc]

\* now.hour == TARGET_HOUR, line 38
HourMatchesIgnored(hour, target) == TRUE

HourMatches(hour, target) == hour = target

\* SENDER_EMAIL and SENDER_PASSWORD, line 79
SecretsPresentNoneOnly(email, password) == ~email.isNone /\ ~password.isNone

SecretsPresent(email, password) == Truthy(email) /\ Truthy(password)

(***************************************************************************)
(* JSON values of the feed.  A field of an object is absent, null, a       *)
(* number (s is its decimal text) or a string.                             *)
(***************************************************************************)
Absent  == [k |-> "absent", s |-> ""]
Null    == [k |-> "null",   s |-> ""]
Num(t)  == [k |-> "num",    s |-> t]
S(t)    == [k |-> "str",    s |-> t]

Obj(position, title, company, url, apply_url) ==
    [kind |-> "obj", s |-> "", position |-> position, title |-> title,
     company |-> company, url |-> url, apply_url |-> apply_url]

\* an element that is not an object: a string, a number or null
Scalar(kind, t) ==
    [kind |-> kind, s |-> t, position |-> Absent, title |-> Absent,
     company |-> Absent, url |-> Absent, apply_url |-> Absent]

\* the decoded body; "invalid" is a body resp.json() cannot decode
Body(kind, t, items) == [kind |-> kind, s |-> t, items |-> items]

\* truth value of what dict.get returns
FieldTruthy(v) == (v.k = "str" /\ v.s # "") \/ (v.k = "num" /\ v.s # "0")

\* a or b or ""
OrElse(a, b) == IF FieldTruthy(a) THEN a ELSE IF FieldTruthy(b) THEN b ELSE S("")

\* j.get("company", "")
CompanyOf(j) == IF j.company.k = "absent" THEN S("") ELSE j.company

\* lines 51-53 raise AttributeError when j has no .get or a value has no .strip
NormalizeRaises(j) ==
    \/ j.kind # "obj"
    \/ OrElse(j.position, j.title).k # "str"
    \/ CompanyOf(j).k # "str"

\* the dict appended at line 55; link is kept as the text the f-string prints
Posting(j) ==
    [title   |-> Strip(OrElse(j.position, j.title).s),
     company |-> Strip(CompanyOf(j).s),
     link    |-> OrElse(j.url, j.apply_url).s]

\* any(kw in title.lower() for kw in KEYWORDS), line 54
TitleMatchesCaseSensitive(title, keywords) ==
    \E n \in 1..Len(keywords) : Contains(keywords[n], title)

TitleMatches(title, keywords) ==
    \E n \in 1..Len(keywords) : Contains(keywords[n], Lower(title))

\* jobs[1:], line 50: a list or a str can be sliced, anything else raises TypeError
SliceFromStart(b) ==
    IF b.kind = "list" THEN [exc |-> "none", items |-> b.items]
    ELSE IF b.kind = "str"
    THEN [exc |-> "none", items |-> [i \in 1..Len(b.s) |-> Scalar("str", CharAt(b.s, i))]]
    ELSE [exc |-> "TypeError", items |-> <<>>]

SliceFrom1(b) ==
    IF b.kind = "list" THEN [exc |-> "none", items |-> SubSeq(b.items, 2, Len(b.items))]
    ELSE IF b.kind = "str"
    THEN [exc |-> "none",
          items |-> [i \in 1..(Len(b.s) - 1) |-> Scalar("str", CharAt(b.s, i + 1))]]
    ELSE [exc |-> "TypeError", items |-> <<>>]

\* the for loop, lines 50-55
RECURSIVE ForEachJob(_, _)
ForEachJob(rest, results) ==
    IF rest = <<>> THEN [exc |-> "none", results |-> results]
    ELSE LET j == Head(rest)
         IN  IF NormalizeRaises(j) THEN [exc |-> "AttributeError", results |-> results]
             ELSE ForEachJob(Tail(rest),
                             IF TitleMatches(Posting(j).title, KEYWORDS)
                             THEN Append(results, Posting(j))
                             ELSE results)

\* resp.raise_for_status(), line 43
RaiseForStatus(status) == status >= 400 /\ status < 600

\* the except clause of lines 41-47 is entered
FetchCaught ==
    \/ feed.outcome = "neterr"
    \/ RaiseForStatus(feed.status)
    \/ feed.body.kind = "invalid"

\* fetch_jobs, lines 40-56
fetch_jobs ==
    IF FetchCaught THEN [exc |-> "none", failed |-> TRUE, results |-> <<>>]
    ELSE LET sl == SliceFrom1(feed.body)
         IN  IF sl.exc # "none" THEN [exc |-> sl.exc, failed |-> FALSE, results |-> <<>>]
             ELSE LET r == ForEachJob(sl.items, <<>>)
                  IN  [exc |-> r.exc, failed |-> FALSE, results |-> r.results]

(***************************************************************************)
(* The digest body, lines 60-66.                                           *)
(***************************************************************************)
NoJobsSentence == "No matching jobs found today."

BlockNoNewline(j) == j.title \o " at " \o j.company \o "\nApply: " \o j.link

Block(j) == j.title \o " at " \o j.company \o "\nApply: " \o j.link \o "\n"

DigestBody(js) ==
    IF js = <<>> THEN NoJobsSentence
    ELSE Join("\n", [i \in 1..Len(js) |-> Block(js[i])])

\* the SMTP dialogue of lines 69-73: the step that raises, or none
SMTPFaults == {"connect", "starttls", "login", "sendmail", "quit", "sent"}

\* server.sendmail is reached unless an earlier step raised
SendmailCalled(fault) == fault \notin {"connect", "starttls", "login"}

(***************************************************************************)
(* Inputs of a run: the environment, the host and the feed's answer.       *)
(* Init is the union of two families: every combination of environment     *)
(* and host against a few feeds, and one good environment (any keyword     *)
(* list) against every feed of at most MaxFeedLen elements.                *)
(***************************************************************************)
ChicagoStandard == 0 - 6
ChicagoDaylight == 0 - 5

TzDatabases ==
    { {},
      {<<"America/Chicago", ChicagoStandard>>, <<"UTC", 0>>},
      {<<"America/Chicago", ChicagoDaylight>>, <<"UTC", 0>>} }

Hosts == [zoneinfoModule : BOOLEAN, tzdb : TzDatabases]

GoodHost == [zoneinfoModule |-> TRUE,
             tzdb |-> {<<"America/Chicago", ChicagoStandard>>, <<"UTC", 0>>}]

Environments ==
    [SENDER_EMAIL    : {Unset, SetTo(""), SetTo("me@example.com")},
     SENDER_PASSWORD : {Unset, SetTo(""), SetTo("app-password")},
     RECEIVER_EMAIL  : {Unset, SetTo(""), SetTo("you@example.com")},
     TIMEZONE        : {Unset, SetTo("Mars/Base")},
     TARGET_HOUR     : {Unset, SetTo("7"), SetTo(" 25 "), SetTo("-1"), SetTo("noon"), SetTo("")},
     KEYWORDS        : {Unset}]

KeywordInputs ==
    {Unset, SetTo(""), SetTo(" , ,"), SetTo("Data Engineer, LEAD ,,rust"), SetTo("intern")}

GoodEnvironments ==
    [SENDER_EMAIL    : {SetTo("me@example.com")},
     SENDER_PASSWORD : {SetTo("app-password")},
     RECEIVER_EMAIL  : {Unset},
     TIMEZONE        : {Unset},
     TARGET_HOUR     : {Unset},
     KEYWORDS        : KeywordInputs]

\* feed elements: postings in the feed's alternative spellings, the leading
\* metadata record, and elements a feed should not contain
JuniorDataEngineer ==
    Obj(S("Junior Data Engineer"), Absent, S("Acme"), S("http://x"), Absent)
SeniorRustDeveloper ==
    Obj(Absent, S("  Senior Rust Developer "), S(" Initech "), Absent, S("http://y"))
InternalToolsLead ==
    Obj(S(""), S("INTERNal Tools Lead"), Absent, Absent, Absent)
EntryLevelAnalyst ==
    Obj(S("Entry Level Analyst"), Absent, S("Globex"), Num("0"), Num("42"))
LegalNotice     == Obj(Absent, Absent, Absent, Absent, Absent)
NumericPosition == Obj(Num("7"), S("Junior Tester"), S("Acme"), Absent, Absent)
NullCompany     == Obj(S("Junior QA"), Absent, Null, S("http://z"), Absent)
BareString      == Scalar("str", "junior")

Elements ==
    {JuniorDataEngineer, SeniorRustDeveloper, InternalToolsLead, EntryLevelAnalyst,
     LegalNotice, NumericPosition, NullCompany, BareString}

Response(status, b) == [outcome |-> "response", status |-> status, body |-> b]

NetworkError == [outcome |-> "neterr", status |-> 0, body |-> Body("invalid", "", <<>>)]

ListFeeds ==
    UNION { { Response(200, Body("list", "", items)) : items \in [1..n -> Elements] }
            : n \in 0..MaxFeedLen }

FewFeeds ==
    { NetworkError,
      Response(404, Body("invalid", "", <<>>)),
      Response(500, Body("list", "", <<LegalNotice, JuniorDataEngineer>>)),
      Response(200, Body("invalid", "", <<>>)),
      Response(200, Body("obj", "", <<>>)),
      Response(200, Body("null", "", <<>>)),
      Response(200, Body("str", "x", <<>>)),
      Response(200, Body("str", "oops", <<>>)),
      Response(200, Body("list", "", <<>>)),
      Response(200, Body("list", "", <<LegalNotice, JuniorDataEngineer, SeniorRustDeveloper>>)),
      Response(200, Body("list", "", <<LegalNotice, NullCompany>>)) }

Init ==
    /\ \/ environ \in Environments /\ host \in Hosts /\ feed \in FewFeeds
       \/ environ \in GoodEnvironments /\ host = GoodHost /\ feed \in ListFeeds
    /\ pc = "import"
    /\ calls = <<>>
    /\ exitStatus = NotExited
    /\ raised = "none"
    /\ ZoneInfo = FALSE
    /\ SENDER_EMAIL = None
    /\ SENDER_PASSWORD = None
    /\ RECEIVER_EMAIL = None
    /\ TIMEZONE = None
    /\ TARGET_HOUR = 0
    /\ KEYWORDS = <<>>
    /\ utcHour = NoHour
    /\ localHour = NoHour
    /\ jobs = <<>>
    /\ fetchFailed = FALSE
    /\ httpGets = 0
    /\ smtpSessions = 0
    /\ body = ""
    /\ rcptTo = None
    /\ sendOutcome = "none"

\* an exception reaches the top level: traceback, exit status 1
Uncaught(exc) ==
    /\ pc' = "done"
    /\ exitStatus' = 1
    /\ raised' = exc

(***************************************************************************)
(* Lines 13-28: the module body.  int() at line 23 may raise ValueError,   *)
(* after lines 14-22 have bound their names.                               *)
(***************************************************************************)
LoadConfig ==
    /\ pc = "import"
    /\ ZoneInfo' = ZoneInfoImport
    /\ SENDER_EMAIL' = EnvGet("SENDER_EMAIL")
    /\ SENDER_PASSWORD' = EnvGet("SENDER_PASSWORD")
    /\ RECEIVER_EMAIL' = EnvGetDefault("RECEIVER_EMAIL", EnvGet("SENDER_EMAIL"))
    /\ TIMEZONE' = EnvGetDefault("TIMEZONE", Str(DefaultTimezone))
    /\ LET parsed == ParseInt(EnvGetDefault("TARGET_HOUR", Str(DefaultTargetHour)).s)
       IN  IF parsed.ok
           THEN /\ TARGET_HOUR' = parsed.val
                /\ KEYWORDS' = KeywordsOf(EnvGetDefault("KEYWORDS", Str(DefaultKeywords)).s)
                /\ pc' = "main"
                /\ UNCHANGED <<exitStatus, raised>>
           ELSE /\ Uncaught("ValueError")
                /\ UNCHANGED <<TARGET_HOUR, KEYWORDS>>
    /\ UNCHANGED <<inputVars, calls, gateVars, fetchVars, sendVars>>

(***************************************************************************)
(* main, lines 79-81: the secrets check.                                   *)
(***************************************************************************)
MainCheckSecrets ==
    /\ pc = "main"
    /\ calls' = Append(calls, "main")
    /\ IF SecretsPresent(SENDER_EMAIL, SENDER_PASSWORD)
       THEN /\ pc' = "is_target_time"
            /\ UNCHANGED <<exitStatus, raised>>
       ELSE Uncaught("SystemExit")
    /\ UNCHANGED <<inputVars, configVars, gateVars, fetchVars, sendVars>>

(***************************************************************************)
(* main, lines 82-84, with is_target_time, lines 35-38.                    *)
(***************************************************************************)
IsTargetTime ==
    /\ pc = "is_target_time"
    /\ calls' = Append(calls, "is_target_time")
    /\ \E h \in 0..23 :
         LET now == local_now(h)
         IN  IF now.exc # "none"
             THEN /\ Uncaught(now.exc)
                  /\ UNCHANGED gateVars
             ELSE /\ utcHour' = h
                  /\ localHour' = now.hour
                  /\ raised' = raised
                  /\ IF HourMatches(now.hour, TARGET_HOUR)
                     THEN pc' = "fetch_jobs" /\ exitStatus' = exitStatus
                     ELSE pc' = "done" /\ exitStatus' = 0
    /\ UNCHANGED <<inputVars, configVars, fetchVars, sendVars>>

(***************************************************************************)
(* main, line 85, with fetch_jobs, lines 40-56.                            *)
(***************************************************************************)
FetchJobs ==
    /\ pc = "fetch_jobs"
    /\ calls' = Append(calls, "fetch_jobs")
    /\ httpGets' = httpGets + 1
    /\ LET r == fetch_jobs
       IN  IF r.exc # "none"
           THEN /\ Uncaught(r.exc)
                /\ UNCHANGED <<jobs, fetchFailed>>
           ELSE /\ jobs' = r.results
                /\ fetchFailed' = r.failed
                /\ pc' = "send_email"
                /\ UNCHANGED <<exitStatus, raised>>
    /\ UNCHANGED <<inputVars, configVars, gateVars, sendVars>>

(***************************************************************************)
(* main, line 86, with send_email, lines 58-76: the subject needs          *)
(* local_now() again, then the body is built and the SMTP dialogue runs    *)
(* inside try/except; main returns and the process exits 0.                *)
(***************************************************************************)
SendEmail ==
    /\ pc = "send_email"
    /\ calls' = Append(calls, "send_email")
    /\ \E fault \in SMTPFaults :
         IF local_now(utcHour).exc # "none"
         THEN /\ Uncaught(local_now(utcHour).exc)
              /\ UNCHANGED sendVars
         ELSE /\ body' = DigestBody(jobs)
              /\ smtpSessions' = smtpSessions + 1
              /\ rcptTo' = IF SendmailCalled(fault) THEN RECEIVER_EMAIL ELSE None
              /\ sendOutcome' = fault
              /\ pc' = "done"
              /\ exitStatus' = 0
              /\ raised' = raised
    /\ UNCHANGED <<inputVars, configVars, gateVars, fetchVars>>

Next ==
    \/ LoadConfig
    \/ MainCheckSecrets
    \/ IsTargetTime
    \/ FetchJobs
    \/ SendEmail

Spec == Init /\ [][Next]_vars

(***************************************************************************)
(* Vocabulary of the properties.                                           *)
(***************************************************************************)
Called(f) == \E i \in 1..Len(calls) : calls[i] = f

\* both secrets are in the environment and non-empty
EnvSecretsPresent ==
    /\ environ.SENDER_EMAIL.set /\ environ.SENDER_EMAIL.val # ""
    /\ environ.SENDER_PASSWORD.set /\ environ.SENDER_PASSWORD.val # ""

GateEvaluated == localHour # NoHour

\* fetch_jobs returned the postings of a feed that decoded to a list
FetchReturnedList ==
    /\ Called("fetch_jobs")
    /\ raised = "none"
    /\ ~fetchFailed
    /\ feed.body.kind = "list"

\* the candidate postings: every element after the first, normalised
Candidates ==
    [i \in 1..(Len(feed.body.items) - 1) |-> Posting(feed.body.items[i + 1])]

\* some keyword is a substring of the lowercased title
Retained(p) == \E n \in 1..Len(KEYWORDS) : Contains(KEYWORDS[n], Lower(p.title))

RetainedIndices == {i \in 1..Len(Candidates) : Retained(Candidates[i])}

\* the n-th smallest retained index
NthRetained(n) ==
    CHOOSE i \in RetainedIndices : Cardinality({m \in RetainedIndices : m <= i}) = n

\* the KEYWORDS input names no keyword at all
EnvKeywordsBlank ==
    /\ environ.KEYWORDS.set
    /\ \A i \in 1..Len(environ.KEYWORDS.val) :
          IsSpace(CharAt(environ.KEYWORDS.val, i)) \/ CharAt(environ.KEYWORDS.val, i) = ","

(***************************************************************************)
(* C1.  When both secrets are present and the computed local hour differs  *)
(* from the target hour (a target hour outside 0..23 included), no HTTP    *)
(* GET and no SMTP session is started and the run ends with status 0.      *)
(***************************************************************************)
C1_GateMismatchNoNetwork ==
    (EnvSecretsPresent /\ GateEvaluated /\ localHour # TARGET_HOUR)
        => /\ httpGets = 0
           /\ smtpSessions = 0
           /\ ~Called("fetch_jobs")
           /\ ~Called("send_email")
           /\ pc = "done"
           /\ exitStatus = 0
           /\ raised = "none"

C1_Witness ==
    /\ pc = "done"
    /\ EnvSecretsPresent
    /\ GateEvaluated
    /\ TARGET_HOUR = 25
    /\ exitStatus = 0

(***************************************************************************)
(* C2.  When the sender address or the sender credential is unset or       *)
(* empty, the time gate is never evaluated, no HTTP GET and no SMTP        *)
(* session is ever started, and the run ends with exit status 1.           *)
(***************************************************************************)
C2_MissingSecretExitsBeforeIO ==
    ~EnvSecretsPresent
        => /\ ~Called("is_target_time")
           /\ ~GateEvaluated
           /\ httpGets = 0
           /\ smtpSessions = 0
           /\ pc \in {"import", "main", "done"}
           /\ (pc = "done" => exitStatus = 1)

C2_Witness ==
    /\ pc = "done"
    /\ raised = "SystemExit"
    /\ environ.SENDER_EMAIL = SetTo("me@example.com")
    /\ environ.SENDER_PASSWORD = SetTo("")
    /\ exitStatus = 1

(***************************************************************************)
(* C3.  The exit status is 1 exactly when a required secret is missing:    *)
(* every finished run with both secrets present has status 0.              *)
(***************************************************************************)
C3_ExitStatusOnlyForSecrets ==
    pc = "done" => exitStatus = (IF EnvSecretsPresent THEN 0 ELSE 1)

(***************************************************************************)
(* C4.  fetch_jobs never propagates an error: after it was called no       *)
(* exception has ended the run, and for a network failure, an error        *)
(* status, an undecodable body, a body that is not a list or a candidate   *)
(* element that is not a record with string fields the result is the       *)
(* empty list and the run is at the send stage or beyond it.               *)
(***************************************************************************)
C4_FeedUnusable ==
    \/ FetchCaught
    \/ feed.body.kind # "list"
    \/ \E i \in 2..Len(feed.body.items) : NormalizeRaises(feed.body.items[i])

C4_FetchNeverPropagates ==
    Called("fetch_jobs")
        => /\ raised = "none"
           /\ pc \in {"send_email", "done"}
           /\ (C4_FeedUnusable => jobs = <<>>)

(***************************************************************************)
(* C5.  A finished run with both secrets present and a matching gate went  *)
(* through the stages once each and in order, with exactly one HTTP GET    *)
(* and exactly one SMTP session; after a failed fetch the body is the      *)
(* no-results sentence.                                                    *)
(***************************************************************************)
C5_OneGetThenOneSend ==
    (pc = "done" /\ EnvSecretsPresent /\ GateEvaluated /\ localHour = TARGET_HOUR)
        => /\ calls = <<"main", "is_target_time", "fetch_jobs", "send_email">>
           /\ httpGets = 1
           /\ smtpSessions = 1
           /\ (C4_FeedUnusable => body = NoJobsSentence)

(***************************************************************************)
(* C6.  The filter output is the order-preserving subsequence of the       *)
(* candidate postings whose lowercased title contains some keyword: there  *)
(* are as many outputs as retained candidates, the n-th output is the      *)
(* n-th retained candidate, keywords are non-empty and lowercase, and      *)
(* with no keyword nothing is retained.                                    *)
(***************************************************************************)
C6_FilterIsKeywordSubsequence ==
    FetchReturnedList
        => /\ Len(jobs) = Cardinality(RetainedIndices)
           /\ \A n \in 1..Len(jobs) : jobs[n] = Candidates[NthRetained(n)]
           /\ \A n \in 1..Len(KEYWORDS) :
                 KEYWORDS[n] # "" /\ KEYWORDS[n] = Lower(KEYWORDS[n])
           /\ (EnvKeywordsBlank => KEYWORDS = <<>> /\ jobs = <<>>)

\* both candidates are retained in feed order, the first by an upper-case
\* title inside a longer word
C6_Witness ==
    /\ FetchReturnedList
    /\ environ.KEYWORDS = Unset
    /\ feed.body.items = <<LegalNotice, InternalToolsLead, JuniorDataEngineer>>
    /\ Len(jobs) = 2
    /\ jobs[1].title = "INTERNal Tools Lead"
    /\ jobs[2].title = "Junior Data Engineer"

(***************************************************************************)
(* C7.  The first element of a decoded feed never contributes a posting    *)
(* and never stops the run, whatever it is; every later element is a       *)
(* candidate; a feed of length 0 or 1 yields no postings.                  *)
(***************************************************************************)
C7_LaterElementsWellFormed ==
    \A i \in 2..Len(feed.body.items) : ~NormalizeRaises(feed.body.items[i])

C7_FirstElementSkipped ==
    (Called("fetch_jobs") /\ ~FetchCaught /\ feed.body.kind = "list")
        => /\ (C7_LaterElementsWellFormed => raised = "none")
           /\ (raised = "none" =>
                 /\ Len(jobs) = Cardinality({i \in 2..Len(feed.body.items) :
                                                Retained(Posting(feed.body.items[i]))})
                 /\ \A n \in 1..Len(jobs) :
                       \E i \in 2..Len(feed.body.items) : jobs[n] = Posting(feed.body.items[i])
                 /\ (Len(feed.body.items) <= 1 => jobs = <<>>))

\* the only element has a matching title and is skipped
C7_Witness ==
    /\ FetchReturnedList
    /\ environ.KEYWORDS = Unset
    /\ feed.body.items = <<JuniorDataEngineer>>
    /\ jobs = <<>>
    /\ pc = "done"

(***************************************************************************)
(* C8.  The digest body depends on the filtered list only: the no-results  *)
(* sentence for an empty list; otherwise, split at newlines, it has three  *)
(* lines per posting in filtered order: "{title} at {company}",            *)
(* "Apply: {link}" and an empty line (fields without a newline), and a     *)
(* single posting renders as "{title} at {company}\nApply: {link}\n".      *)
(***************************************************************************)
C8_NoNewline(t) == \A i \in 1..Len(t) : CharAt(t, i) # "\n"

C8_FieldsOnOneLine ==
    \A n \in 1..Len(jobs) :
        C8_NoNewline(jobs[n].title) /\ C8_NoNewline(jobs[n].company) /\ C8_NoNewline(jobs[n].link)

C8_DigestBodyLayout ==
    sendOutcome # "none"
        => /\ (jobs = <<>> => body = "No matching jobs found today.")
           /\ (Len(jobs) = 1 =>
                 body = jobs[1].title \o " at " \o jobs[1].company
                           \o "\nApply: " \o jobs[1].link \o "\n")
           /\ (jobs # <<>> /\ C8_FieldsOnOneLine =>
                 LET lines == Split(body, "\n")
                 IN  /\ Len(lines) = 3 * Len(jobs)
                     /\ \A n \in 1..Len(jobs) :
                           /\ lines[3 * n - 2] = jobs[n].title \o " at " \o jobs[n].company
                           /\ lines[3 * n - 1] = "Apply: " \o jobs[n].link
                           /\ lines[3 * n] = "")

\* the posting of the spec's example, alone and followed by a second posting
C8_Witness ==
    /\ sendOutcome # "none"
    /\ Len(jobs) = 2
    /\ body = "Junior Data Engineer at Acme\nApply: http://x\n\nEntry Level Analyst at Globex\nApply: 42\n"

(***************************************************************************)
(* C9.  The message goes to the receiver address, which is the sender      *)
(* address whenever RECEIVER_EMAIL is unset or empty, and the receiver is  *)
(* never empty at the send stage.                                          *)
(***************************************************************************)
C9_ExpectedReceiver ==
    IF environ.RECEIVER_EMAIL.set /\ environ.RECEIVER_EMAIL.val # ""
    THEN Str(environ.RECEIVER_EMAIL.val)
    ELSE Str(environ.SENDER_EMAIL.val)

C9_ReceiverDefaultsToSender ==
    /\ ((Called("send_email") /\ SendmailCalled(sendOutcome)) => rcptTo = C9_ExpectedReceiver)
    /\ ((pc = "send_email" \/ Called("send_email")) => Truthy(RECEIVER_EMAIL))

(***************************************************************************)
(* C10.  Whenever the host cannot resolve the configured timezone (no      *)
(* zoneinfo module, or the zone is not in its database) the gate uses UTC  *)
(* and returns instead of raising.                                         *)
(***************************************************************************)
C10_ZoneUnresolvable == ~host.zoneinfoModule \/ ~ZoneKnown(TIMEZONE.s)

C10_GateFallsBackToUTC ==
    (Called("is_target_time") /\ C10_ZoneUnresolvable)
        => /\ raised = "none"
           /\ GateEvaluated
           /\ localHour = utcHour

====
